---- MODULE Spec2Model ----
(***************************************************************************)
(* The search-session protocol of mcp-web: the `search`, `search_next` and *)
(* `solve_captcha` tool handlers, the response parser they share, the      *)
(* puzzle compositor and the loopback image store.                         *)
(*                                                                         *)
(* Conventions.  A JavaScript string is a sequence of atomic tokens, so    *)
(* the empty string is << >> and concatenation is \o.  A nullable value is *)
(* None (null / undefined) or Some(v).  A handler is a process that runs   *)
(* from one `await` to the next in a single step; the steps of different   *)
(* handlers interleave only at those points.                               *)
(***************************************************************************)
EXTENDS Integers, Sequences, FiniteSets, TLC

VARIABLES
    build,          \* which entry point runs: "part_001" (with CAPTCHA handling) or "index.ts"
    searchState,    \* the process-wide search session
    captchaState,   \* the process-wide challenge descriptor
    captchaImages,  \* the puzzle-image store: path -> composite
    timers,         \* pending setTimeout deletions (paths)
    npaths,         \* number of random image paths drawn so far
    calls,          \* one record per handler slot: position, locals and, once returned, the result
    ncalls,         \* calls started so far (advanced only where the call budget applies)
    tokenUsed       \* ghost: the form data now or last held in the session was already sent as a body

vars == <<build, searchState, captchaState, captchaImages, timers, npaths, calls, ncalls, tokenUsed>>

(***************************************************************************)
(* Bounds of the model and constants of the program                        *)
(***************************************************************************)
MaxInFlight == 2
MaxCalls == 3
MaxImages == 1
MaxIndices == 2
MaxTileFaults == 1
MaxStored == 2
PageCap == 5
GridTiles == 9

Slots == 1..MaxInFlight

(***************************************************************************)
(* Values                                                                  *)
(***************************************************************************)
None == << >>
Some(v) == <<v>>

\* JavaScript truthiness of a nullable string: null and "" are both falsy.
TruthyStr(o) == o # None /\ o[1] # << >>
\* ... and of a nullable array: every array, the empty one included, is truthy.
TruthyArr(o) == o # None

Origin == "https://duckduckgo.com"
SearchUrl == <<"https://html.duckduckgo.com/html/">>

Queries == {<<"q1">>, <<"q2">>}

\* new URL(rel, "https://duckduckgo.com").href for a root-relative or empty reference
ResolveUrl(rel) == IF rel = << >> THEN <<Origin, "/">> ELSE <<Origin>> \o rel

\* URLSearchParams.toString() of a list of <<name, value>> pairs
RECURSIVE FormToString(_)
FormToString(pairs) ==
    IF pairs = << >> THEN << >>
    ELSE LET p == pairs[1]
             rest == FormToString(Tail(pairs))
         IN p[1] \o <<"=">> \o p[2] \o (IF Tail(pairs) = << >> THEN << >> ELSE <<"&">> \o rest)

\* s.split("/").pop(): the tokens after the last "/" (all of s when it holds none)
LastSegment(s) ==
    IF \E i \in 1..Len(s) : s[i] = "/"
    THEN LET i == CHOOSE j \in 1..Len(s) : s[j] = "/" /\ \A k \in (j+1)..Len(s) : s[k] # "/"
         IN SubSeq(s, i + 1, Len(s))
    ELSE s

\* s.replace(".jpg", ""): the first occurrence removed
RemoveFirstJpg(s) ==
    IF \E i \in 1..Len(s) : s[i] = ".jpg"
    THEN LET i == CHOOSE j \in 1..Len(s) : s[j] = ".jpg" /\ \A k \in 1..(j-1) : s[k] # ".jpg"
         IN SubSeq(s, 1, i - 1) \o SubSeq(s, i + 1, Len(s))
    ELSE s

(***************************************************************************)
(* Response documents.  An attribute that is absent and one that is empty  *)
(* read the same through `attr(..) || ""`, so both are the empty string.   *)
(***************************************************************************)
Stems == <<"a", "b", "c", "d", "e", "f", "g", "h", "i", "j">>
TileSrc(stem) == <<"/", "assets", "/", stem, ".jpg">>
TilesGood(n) == [i \in 1..n |-> TileSrc(Stems[i])]
\* nine tiles, the fourth with a source that has no file name
TilesOneUnnamed == [i \in 1..GridTiles |-> IF i = 4 THEN <<"/", "assets", "/">> ELSE TileSrc(Stems[i])]
\* nine tiles of another puzzle
TilesOther == [i \in 1..GridTiles |-> TileSrc(Stems[GridTiles + 2 - i])]

ChallengeForm(action, submitValue, tiles, instructions) ==
    [action |-> action, submitValue |-> submitValue, tiles |-> tiles, instructions |-> instructions]

FormA == ChallengeForm(<<"/anomaly.js?c=A">>, <<"submitA">>, TilesGood(GridTiles), <<"Select all ducks">>)
FormB == ChallengeForm(<<"/anomaly.js?c=B">>, <<"submitB">>, TilesOther, <<"Select all geese">>)

ChallengeForms ==
    { FormA, FormB,
      ChallengeForm(<< >>, <<"submitA">>, TilesGood(GridTiles), <<"Select all ducks">>),
      ChallengeForm(<<"/anomaly.js?c=A">>, <<"submitA">>, TilesGood(GridTiles), << >>),
      ChallengeForm(<<"/anomaly.js?c=A">>, <<"submitA">>, TilesOneUnnamed, <<"Select all ducks">>) }

ErrorForms == { [instructions |-> <<"Please try again">>, action |-> <<"/anomaly.js?retry">>] }

\* a .result element: its first .result__a (link text and href) and first .result__snippet
Item(hasLink, title, href, snippet) ==
    [hasLink |-> hasLink, title |-> title, href |-> href, snippet |-> snippet]
ItemA == Item(TRUE, <<"A">>, <<"https://a.example/">>, Some(<<"a-desc">>))
ItemB == Item(TRUE, <<"B">>, <<"https://b.example/">>, Some(<<"b-desc">>))
ItemNoSnippet == Item(TRUE, <<"C">>, << >>, None)
ItemNoTitle == Item(TRUE, << >>, <<"https://d.example/">>, Some(<<"d-desc">>))
ItemNoLink == Item(FALSE, << >>, << >>, Some(<<"e-desc">>))

\* an <input>: its name and value attributes, None when the attribute is absent
Input(name, value) == [name |-> name, value |-> value]
NextForm1 == << Input(Some(<<"q">>), Some(<<"q1">>)), Input(Some(<<"s">>), Some(<<"30">>)),
                Input(Some(<<"nextParams">>), None), Input(None, Some(<<"Next">>)) >>
NextForm2 == << Input(Some(<<"q">>), Some(<<"q2">>)), Input(Some(<<"s">>), Some(<<"60">>)),
                Input(Some(<< >>), Some(<<"x">>)) >>
\* a form whose only input is the unnamed submit control
NextFormBare == << Input(None, Some(<<"Next">>)) >>

Doc(challengeForm, errorForm, successForm, resultsElem, items, nextForms) ==
    [challengeForm |-> challengeForm, errorForm |-> errorForm, successForm |-> successForm,
     resultsElem |-> resultsElem, items |-> items, nextForms |-> nextForms]

\* the results pages: item lists with the next-page forms found beside them
ResultsPages ==
    { Doc(None, None, FALSE, TRUE, << >>, << >>),
      Doc(None, None, FALSE, TRUE, <<ItemA, ItemB>>, << >>),
      Doc(None, None, FALSE, TRUE, <<ItemA, ItemB>>, <<NextForm1>>),
      Doc(None, None, FALSE, TRUE, << >>, <<NextForm1>>),
      Doc(None, None, FALSE, TRUE, <<ItemA, ItemNoTitle, ItemNoSnippet, ItemNoLink>>, <<NextFormBare>>),
      Doc(None, None, FALSE, TRUE, <<ItemA, ItemB>>, <<NextForm2, NextFormBare>>) }

\* every combination of the four markers, every challenge form alone, every results page
Docs ==
    { Doc(c, e, sf, r, <<ItemA, ItemB>>, <<NextForm1>>) :
        c \in {None, Some(FormA)}, e \in {None} \cup {Some(f) : f \in ErrorForms},
        sf \in BOOLEAN, r \in BOOLEAN }
    \cup { Doc(Some(f), None, FALSE, FALSE, << >>, << >>) : f \in ChallengeForms }
    \cup ResultsPages

(***************************************************************************)
(* parseSearchResults                                                      *)
(***************************************************************************)
NoData ==
    [mode |-> "none", error |-> << >>, next |-> << >>, hasMore |-> 0,
     results |-> << >>, captcha |-> None]

\* the tile loop: absolute URL of every image, a checkbox name for every image with a file name
ImageUrls(tiles) == [i \in 1..Len(tiles) |-> ResolveUrl(tiles[i])]

Filename(src) == RemoveFirstJpg(LastSegment(src))

RECURSIVE CheckboxNames(_)
CheckboxNames(tiles) ==
    IF tiles = << >> THEN << >>
    ELSE LET filename == Filename(tiles[1])
         IN (IF filename # << >> THEN << <<"image-check_">> \o filename >> ELSE << >>)
            \o CheckboxNames(Tail(tiles))

\* the $(".result").each loop
RECURSIVE ExtractResults(_)
ExtractResults(items) ==
    IF items = << >> THEN << >>
    ELSE LET it == items[1]
             description == IF it.snippet # None THEN it.snippet[1] ELSE << >>
         IN (IF it.hasLink /\ it.title # << >>
             THEN << [title |-> it.title, url |-> it.href, description |-> description] >>
             ELSE << >>)
            \o ExtractResults(Tail(items))

\* next.find("input"): the inputs of every matched form, in document order
RECURSIVE AllInputs(_)
AllInputs(forms) ==
    IF forms = << >> THEN << >> ELSE forms[1] \o AllInputs(Tail(forms))

\* mutant: an input without a value is skipped like one without a name
NextFormDataSkipsNoValue(inputs) ==
    LET kept == SelectSeq(inputs, LAMBDA input : TruthyStr(input.name) /\ TruthyStr(input.value))
    IN [k \in 1..Len(kept) |-> <<kept[k].name[1], kept[k].value[1]>>]

\* the formData.append loop
RECURSIVE NextFormData(_)
NextFormData(inputs) ==
    IF inputs = << >> THEN << >>
    ELSE LET input == inputs[1]
         IN (IF TruthyStr(input.name)
             THEN << <<input.name[1], IF TruthyStr(input.value) THEN input.value[1] ELSE << >> >> >>
             ELSE << >>)
            \o NextFormData(Tail(inputs))

\* mutant: the session is rebuilt from scratch when the form data is stored
ParseResultsPageFreshSession(doc, ss) ==
    LET results == ExtractResults(doc.items)
        hasMore == Len(doc.nextForms)
        formData == NextFormData(AllInputs(doc.nextForms))
    IN [data |-> [NoData EXCEPT !.mode = "results", !.hasMore = hasMore, !.results = results],
        searchState |-> IF hasMore = 0 THEN ss
                        ELSE [currentQuery |-> ss.currentQuery, currentPage |-> 1,
                              nextFormData |-> Some(FormToString(formData))]]

\* The extraction of results and of the next-page form data, common to both builds.
\* Returns the data handed to the caller and the session after the parse.
ParseResultsPage(doc, ss) ==
    LET results == ExtractResults(doc.items)
        hasMore == Len(doc.nextForms)
        formData == NextFormData(AllInputs(doc.nextForms))
    IN [data |-> [NoData EXCEPT !.mode = "results", !.hasMore = hasMore, !.results = results],
        searchState |-> IF hasMore = 0 THEN ss
                        ELSE [ss EXCEPT !.nextFormData = Some(FormToString(formData))]]

ParseChallenge(form) ==
    LET images == ImageUrls(form.tiles)
        checkboxNames == CheckboxNames(form.tiles)
    IN [data |-> [NoData EXCEPT !.mode = "captcha",
                                !.error = <<"Search blocked by CAPTCHA challenge.">>,
                                !.captcha = Some([challenge |-> form.instructions, images |-> images])],
        captchaState |-> [challenge |-> Some(form.instructions), images |-> Some(images),
                          action |-> Some(form.action), submitValue |-> Some(form.submitValue),
                          checkboxNames |-> Some(checkboxNames)]]

\* mutant: a challenge also drops the pending form data
parseSearchResultsDropsToken(doc, ss, cs) ==
    IF doc.challengeForm # None
    THEN LET p == ParseChallenge(doc.challengeForm[1])
         IN [data |-> p.data, searchState |-> [ss EXCEPT !.nextFormData = None],
             captchaState |-> p.captchaState]
    ELSE IF doc.errorForm # None
    THEN [data |-> [NoData EXCEPT !.mode = "captcha-failed",
                                  !.error = doc.errorForm[1].instructions,
                                  !.next = doc.errorForm[1].action],
          searchState |-> ss, captchaState |-> cs]
    ELSE IF doc.successForm
    THEN [data |-> [NoData EXCEPT !.mode = "captcha-success"], searchState |-> ss, captchaState |-> cs]
    ELSE IF ~doc.resultsElem
    THEN [data |-> [NoData EXCEPT !.mode = "unknown"], searchState |-> ss, captchaState |-> cs]
    ELSE LET p == ParseResultsPage(doc, ss)
         IN [data |-> p.data, searchState |-> p.searchState, captchaState |-> cs]

\* mutant: the success form is looked for before the error form
parseSearchResultsSuccessFirst(doc, ss, cs) ==
    IF doc.challengeForm # None
    THEN LET p == ParseChallenge(doc.challengeForm[1])
         IN [data |-> p.data, searchState |-> ss, captchaState |-> p.captchaState]
    ELSE IF doc.successForm
    THEN [data |-> [NoData EXCEPT !.mode = "captcha-success"], searchState |-> ss, captchaState |-> cs]
    ELSE IF doc.errorForm # None
    THEN [data |-> [NoData EXCEPT !.mode = "captcha-failed",
                                  !.error = doc.errorForm[1].instructions,
                                  !.next = doc.errorForm[1].action],
          searchState |-> ss, captchaState |-> cs]
    ELSE IF ~doc.resultsElem
    THEN [data |-> [NoData EXCEPT !.mode = "unknown"], searchState |-> ss, captchaState |-> cs]
    ELSE LET p == ParseResultsPage(doc, ss)
         IN [data |-> p.data, searchState |-> p.searchState, captchaState |-> cs]

\* mutant: a new challenge keeps the action URL of the descriptor it replaces
parseSearchResultsKeepsAction(doc, ss, cs) ==
    IF doc.challengeForm # None
    THEN LET p == ParseChallenge(doc.challengeForm[1])
         IN [data |-> p.data, searchState |-> ss,
             captchaState |-> [p.captchaState EXCEPT !.action = IF cs.action # None THEN cs.action ELSE @]]
    ELSE IF doc.errorForm # None
    THEN [data |-> [NoData EXCEPT !.mode = "captcha-failed",
                                  !.error = doc.errorForm[1].instructions,
                                  !.next = doc.errorForm[1].action],
          searchState |-> ss, captchaState |-> cs]
    ELSE IF doc.successForm
    THEN [data |-> [NoData EXCEPT !.mode = "captcha-success"], searchState |-> ss, captchaState |-> cs]
    ELSE IF ~doc.resultsElem
    THEN [data |-> [NoData EXCEPT !.mode = "unknown"], searchState |-> ss, captchaState |-> cs]
    ELSE LET p == ParseResultsPage(doc, ss)
         IN [data |-> p.data, searchState |-> p.searchState, captchaState |-> cs]

\* parseSearchResults of part_001: [data, searchState, captchaState] after the parse
parseSearchResults(doc, ss, cs) ==
    IF doc.challengeForm # None
    THEN LET p == ParseChallenge(doc.challengeForm[1])
         IN [data |-> p.data, searchState |-> ss, captchaState |-> p.captchaState]
    ELSE IF doc.errorForm # None
    THEN [data |-> [NoData EXCEPT !.mode = "captcha-failed",
                                  !.error = doc.errorForm[1].instructions,
                                  !.next = doc.errorForm[1].action],
          searchState |-> ss, captchaState |-> cs]
    ELSE IF doc.successForm
    THEN [data |-> [NoData EXCEPT !.mode = "captcha-success"], searchState |-> ss, captchaState |-> cs]
    ELSE IF ~doc.resultsElem
    THEN [data |-> [NoData EXCEPT !.mode = "unknown"], searchState |-> ss, captchaState |-> cs]
    ELSE LET p == ParseResultsPage(doc, ss)
         IN [data |-> p.data, searchState |-> p.searchState, captchaState |-> cs]

\* parseSearchResults of index.ts: no classification, every document is a results page
parseSearchResultsV1(doc, ss, cs) ==
    LET p == ParseResultsPage(doc, ss)
    IN [data |-> p.data, searchState |-> p.searchState, captchaState |-> cs]

(***************************************************************************)
(* Tool results                                                            *)
(***************************************************************************)
NoResult ==
    [text |-> "none", isError |-> FALSE, sent |-> FALSE, found |-> 0, query |-> << >>,
     hasMore |-> FALSE, listed |-> << >>, detail |-> << >>, puzzle |-> 0, grid |-> << >>]

TextNoNextPage == "No next page available."
TextNoCaptcha == "No CAPTCHA challenge is currently active."
TextFetchStatus == "Error fetching search results: <status>"
TextSearchThrown == "Error performing search: <message>"
TextSolveStatus == "Error solving CAPTCHA: <status>"
TextSolveThrown == "Error solving CAPTCHA: <message>"
TextCaptchaFailed == "Captcha failed. Notify user to retry giving the captcha result."
TextCaptchaSolved == "Captcha successfully solved. You should call search tool again."
TextUnknown == "Search can not be performed due to unknown error."
TextPuzzle == "Search blocked by CAPTCHA challenge. Ask user to solve CAPTCHA"
TextBlocked == "Search blocked by DuckDuckGo, this search cannot be performed."
TextFound == "Found <n> results for query"

ErrorResult(text) == [NoResult EXCEPT !.text = text, !.isError = TRUE]

\* the result of a handler's catch block
CaughtResult(op) == ErrorResult(IF op = "solve_captcha" THEN TextSolveThrown ELSE TextSearchThrown)

\* the result of a handler's `!response.ok` branch
StatusResult(op) == ErrorResult(IF op = "solve_captcha" THEN TextSolveStatus ELSE TextFetchStatus)

\* the summary of a results page; `more` is the condition of the "More pages available" branch
FoundResult(data, query, more) ==
    [NoResult EXCEPT !.text = TextFound, !.found = Len(data.results), !.query = query,
                     !.hasMore = more, !.listed = data.results]

\* mutant: an unrecognized document falls through to the results summary
dataToResultUnknownAsFound(data, query) ==
    IF data.mode = "captcha-failed"
    THEN [ErrorResult(TextCaptchaFailed) EXCEPT !.detail = data.error]
    ELSE IF data.mode = "captcha-success"
    THEN [NoResult EXCEPT !.text = TextCaptchaSolved]
    ELSE FoundResult(data, query, data.hasMore # 0)

\* dataToResult of part_001 for every mode but "captcha" (which goes on to download the tiles)
dataToResult(data, query) ==
    IF data.mode = "captcha-failed"
    THEN [ErrorResult(TextCaptchaFailed) EXCEPT !.detail = data.error]
    ELSE IF data.mode = "captcha-success"
    THEN [NoResult EXCEPT !.text = TextCaptchaSolved]
    ELSE IF data.mode = "unknown"
    THEN [NoResult EXCEPT !.text = TextUnknown]
    ELSE FoundResult(data, query, data.hasMore # 0)

\* the summary built inline by the handlers of index.ts
SummaryV1(op, data, query, ss) ==
    FoundResult(data, query,
                IF op = "search_next" THEN data.hasMore # 0 \/ ss.currentPage > PageCap
                ELSE data.hasMore # 0)

(***************************************************************************)
(* The session and the challenge descriptor                                *)
(***************************************************************************)
InitSearchState == [currentQuery |-> None, currentPage |-> 1, nextFormData |-> None]

InitCaptchaState ==
    [challenge |-> None, images |-> None, action |-> None, submitValue |-> None,
     checkboxNames |-> None]

\* mutant: the reset forgets to drop the pending form data
ResetSearchKeepsToken(query) ==
    [currentQuery |-> Some(query), currentPage |-> 1, nextFormData |-> searchState.nextFormData]

\* "Reset search state for new search"
ResetSearch(query) == [currentQuery |-> Some(query), currentPage |-> 1, nextFormData |-> None]

\* mutant: the page cap is tested one page late
NoNextPageLateCap(ss) == ~TruthyStr(ss.nextFormData) \/ ss.currentPage > PageCap + 1

\* mutant: search_next is also refused while a challenge is active
NoNextPageWhileChallenge(ss) ==
    \/ ~TruthyStr(ss.nextFormData) \/ ss.currentPage > PageCap
    \/ /\ TruthyStr(captchaState.challenge) /\ TruthyStr(captchaState.action)
       /\ TruthyStr(captchaState.submitValue)

\* the guard of search_next: true when the call is refused
NoNextPage(ss) == ~TruthyStr(ss.nextFormData) \/ ss.currentPage > PageCap

\* mutant: the form data is left in the session
ConsumeNextKeepsToken(ss) == [ss EXCEPT !.currentPage = ss.currentPage + 1]

\* search_next past its guard: the page counted, the form data taken out of the session
ConsumeNext(ss) == [ss EXCEPT !.currentPage = ss.currentPage + 1, !.nextFormData = None]

\* mutant: the guard does not test the action URL
NoChallengeIgnoresAction(cs) ==
    \/ ~TruthyStr(cs.challenge)
    \/ ~TruthyArr(cs.images)
    \/ ~TruthyStr(cs.submitValue)
    \/ ~TruthyArr(cs.checkboxNames)

\* the guard of solve_captcha: true when the call is refused
NoChallenge(cs) ==
    \/ ~TruthyStr(cs.challenge)
    \/ ~TruthyArr(cs.images)
    \/ ~TruthyStr(cs.action)
    \/ ~TruthyStr(cs.submitValue)
    \/ ~TruthyArr(cs.checkboxNames)

\* mutant: the indices are taken as 0-based positions above the first
CheckedFieldsSkipFirst(names, indices2) ==
    LET RECURSIVE Loop(_)
        Loop(rest) ==
            IF rest = << >> THEN << >>
            ELSE LET index2 == rest[1]
                 IN (IF /\ index2 > 2 /\ index2 <= 2 * Len(names)
                        /\ index2 % 2 = 0 /\ names[index2 \div 2] # << >>
                     THEN << <<names[index2 \div 2], <<"1">> >> >>
                     ELSE << >>)
                    \o Loop(Tail(rest))
    IN Loop(indices2)

\* An index is held doubled, so that 3 stands for 1.5 (z.number() admits fractions).
\* checkboxNames[index - 1] is undefined for a fractional index.
CheckedFields(names, indices2) ==
    LET RECURSIVE Loop(_)
        Loop(rest) ==
            IF rest = << >> THEN << >>
            ELSE LET index2 == rest[1]
                 IN (IF /\ index2 >= 2 /\ index2 <= 2 * Len(names)
                        /\ index2 % 2 = 0 /\ names[index2 \div 2] # << >>
                     THEN << <<names[index2 \div 2], <<"1">> >> >>
                     ELSE << >>)
                    \o Loop(Tail(rest))
    IN Loop(indices2)

\* the form data solve_captcha builds
SolveFormData(cs, indices2) ==
    << << <<"challenge-submit">>, cs.submitValue[1] >> >> \o CheckedFields(cs.checkboxNames[1], indices2)

Request(url, body) == [url |-> url, body |-> body]

(***************************************************************************)
(* Handler slots                                                           *)
(***************************************************************************)
IdleCall ==
    [op |-> "none", pc |-> "idle", query |-> << >>, indices |-> << >>, req |-> None,
     data |-> NoData, result |-> NoResult]

Free(s) == calls[s].pc \in {"idle", "done"}
NoneInFlight == \A s \in Slots : Free(s)

\* a handler between its request and the response
Awaiting(op, query, indices2, req) ==
    [op |-> op, pc |-> "fetch", query |-> query, indices |-> indices2, req |-> Some(req),
     data |-> NoData, result |-> NoResult]

\* a handler that has returned `result`; `sent` tells whether it issued a request
Returned(c, result, sent) ==
    [op |-> c.op, pc |-> "done", query |-> c.query, indices |-> << >>, req |-> None,
     data |-> NoData, result |-> [result EXCEPT !.sent = sent]]

\* the lists of indices a caller passes: 1 and 10 in every arrangement, and the fraction 1.5
IndexValues2 == {2, 20}
IndexLists == UNION { [1..n -> IndexValues2] : n \in 0..MaxIndices } \cup { <<3>>, <<3, 2>> }

Init ==
    /\ build \in {"part_001", "index.ts"}
    /\ searchState = InitSearchState
    /\ captchaState = InitCaptchaState
    /\ captchaImages = << >>
    /\ timers = {}
    /\ npaths = 0
    /\ calls = [s \in Slots |-> IdleCall]
    /\ ncalls = 0
    /\ tokenUsed = FALSE

(***************************************************************************)
(* search                                                                  *)
(***************************************************************************)
\* called with a query only: the optional region and dateFrame add kl and df to the body
Search(s, query) ==
    /\ Free(s)
    /\ searchState' = ResetSearch(query)
    /\ calls' = [calls EXCEPT ![s] =
                    Awaiting("search", query, << >>,
                             Request(SearchUrl, FormToString(<< <<<<"q">>, query>>, <<<<"b">>, << >> >> >>)))]
    /\ UNCHANGED <<build, captchaState, captchaImages, timers, npaths, tokenUsed>>

(***************************************************************************)
(* search_next                                                             *)
(***************************************************************************)
SearchNextRefused(s) ==
    /\ Free(s)
    /\ NoNextPage(searchState)
    /\ calls' = [calls EXCEPT ![s] =
                    Returned([IdleCall EXCEPT !.op = "search_next"], ErrorResult(TextNoNextPage), FALSE)]
    /\ UNCHANGED <<build, searchState, captchaState, captchaImages, timers, npaths, tokenUsed>>

SearchNextSend(s) ==
    /\ Free(s)
    /\ ~NoNextPage(searchState)
    /\ searchState' = ConsumeNext(searchState)
    /\ calls' = [calls EXCEPT ![s] =
                    Awaiting("search_next", << >>, << >>, Request(SearchUrl, searchState.nextFormData[1]))]
    /\ tokenUsed' = TRUE
    /\ UNCHANGED <<build, captchaState, captchaImages, timers, npaths>>

(***************************************************************************)
(* solve_captcha (registered by part_001 only)                             *)
(***************************************************************************)
\* refused before the indices are looked at
SolveCaptchaRefused(s) ==
    /\ build = "part_001"
    /\ Free(s)
    /\ NoChallenge(captchaState)
    /\ calls' = [calls EXCEPT ![s] =
                    Returned([IdleCall EXCEPT !.op = "solve_captcha"], ErrorResult(TextNoCaptcha), FALSE)]
    /\ UNCHANGED <<build, searchState, captchaState, captchaImages, timers, npaths, tokenUsed>>

\* the request solve_captcha makes for a list of indices
SolveRequest(cs, indices2) ==
    Request(ResolveUrl(cs.action[1]), FormToString(SolveFormData(cs, indices2)))

SolveCaptchaSend(s, indices2) ==
    /\ build = "part_001"
    /\ Free(s)
    /\ ~NoChallenge(captchaState)
    /\ calls' = [calls EXCEPT ![s] =
                    Awaiting("solve_captcha", << >>, indices2, SolveRequest(captchaState, indices2))]
    /\ UNCHANGED <<build, searchState, captchaState, captchaImages, timers, npaths, tokenUsed>>

(***************************************************************************)
(* The response to a handler's request                                     *)
(***************************************************************************)
\* fetch() or response.text() rejects: the handler's catch block returns
FetchThrows(s) ==
    /\ calls[s].pc = "fetch"
    /\ calls' = [calls EXCEPT ![s] = Returned(calls[s], CaughtResult(calls[s].op), TRUE)]
    /\ UNCHANGED <<build, searchState, captchaState, captchaImages, timers, npaths, ncalls, tokenUsed>>

\* mutant: the challenge state is reset before the status is tested
FetchNotOkResetsChallenge(s) ==
    /\ calls[s].pc = "fetch"
    /\ calls' = [calls EXCEPT ![s] = Returned(calls[s], StatusResult(calls[s].op), TRUE)]
    /\ captchaState' = InitCaptchaState
    /\ UNCHANGED <<build, searchState, captchaImages, timers, npaths, ncalls, tokenUsed>>

\* a response whose status is not OK
FetchNotOk(s) ==
    /\ calls[s].pc = "fetch"
    /\ calls' = [calls EXCEPT ![s] = Returned(calls[s], StatusResult(calls[s].op), TRUE)]
    /\ UNCHANGED <<build, searchState, captchaState, captchaImages, timers, npaths, ncalls, tokenUsed>>

\* an OK response with body `doc`: parseSearchResults runs on it
FetchOk(s, doc) ==
    /\ calls[s].pc = "fetch"
    /\ LET p == IF build = "part_001"
                THEN parseSearchResults(doc, searchState, captchaState)
                ELSE parseSearchResultsV1(doc, searchState, captchaState)
       IN /\ searchState' = p.searchState
          /\ captchaState' = p.captchaState
          /\ tokenUsed' = IF p.data.mode = "results" /\ p.data.hasMore # 0 THEN FALSE ELSE tokenUsed
          /\ calls' = [calls EXCEPT ![s].pc = "render", ![s].req = None, ![s].indices = << >>,
                                     ![s].data = p.data]
    /\ UNCHANGED <<build, captchaImages, timers, npaths, ncalls>>

(***************************************************************************)
(* From the parsed data to the tool result                                 *)
(***************************************************************************)
\* the query the handler passes on: its own argument in search, the session's otherwise
QueryOf(c, ss) ==
    IF c.op = "search" THEN c.query
    ELSE IF TruthyStr(ss.currentQuery) THEN ss.currentQuery[1] ELSE << >>

Render(s) ==
    /\ calls[s].pc = "render"
    /\ calls[s].data.mode # "captcha"
    /\ LET c == calls[s]
           query == QueryOf(c, searchState)
           result == IF build = "part_001" THEN dataToResult(c.data, query)
                     ELSE SummaryV1(c.op, c.data, query, searchState)
       IN calls' = [calls EXCEPT ![s] = Returned(c, result, TRUE)]
    /\ UNCHANGED <<build, searchState, captchaState, captchaImages, timers, npaths, ncalls, tokenUsed>>

\* dataToResult on a challenge: the tile downloads are started and awaited
StartTiles(s) ==
    /\ calls[s].pc = "render"
    /\ calls[s].data.mode = "captcha"
    /\ calls' = [calls EXCEPT ![s].pc = "tiles", ![s].query = QueryOf(calls[s], searchState)]
    /\ UNCHANGED <<build, searchState, captchaState, captchaImages, timers, npaths, ncalls, tokenUsed>>

\* the buffers that Promise.all(...).then(filter) keeps: the tiles whose download succeeded, in order
Buffers(images, failed) ==
    LET RECURSIVE Keep(_)
        Keep(i) == IF i > Len(images) THEN << >>
                   ELSE (IF i \in failed THEN << >> ELSE <<images[i]>>) \o Keep(i + 1)
    IN Keep(1)

\* the tile drawn and the label written at each grid position, row-major
Composite(buffers) ==
    [p \in 1..GridTiles |-> [tile |-> buffers[p], label |-> p - 1]]

RECURSIVE FaultSets(_, _)
FaultSets(n, k) ==
    IF k = 0 THEN { {} }
    ELSE LET smaller == FaultSets(n, k - 1)
         IN smaller \cup { f \cup {i} : f \in smaller, i \in 1..n }

\* fewer or more than nine buffers: the text-only answer
TilesBlocked(s, failed) ==
    /\ calls[s].pc = "tiles"
    /\ LET images == calls[s].data.captcha[1].images
       IN Len(Buffers(images, failed)) # GridTiles
    /\ calls' = [calls EXCEPT ![s] = Returned(calls[s], [NoResult EXCEPT !.text = TextBlocked], TRUE)]
    /\ UNCHANGED <<build, searchState, captchaState, captchaImages, timers, npaths, ncalls, tokenUsed>>

\* what may throw while the grid is drawn: the decoding of a tile, the reading of the overlay
ThrowCauses == { <<"decodeJPEGFromStream">>, <<"overlay">> }

\* nine buffers, but a tile does not decode or the overlay cannot be read: the catch block
\* of the handler returns, with the message of the error
TilesThrow(s, failed) ==
    /\ calls[s].pc = "tiles"
    /\ LET images == calls[s].data.captcha[1].images
       IN Len(Buffers(images, failed)) = GridTiles
    /\ \E cause \in ThrowCauses :
          calls' = [calls EXCEPT ![s] =
                       Returned(calls[s], [CaughtResult(calls[s].op) EXCEPT !.detail = cause], TRUE)]
    /\ UNCHANGED <<build, searchState, captchaState, captchaImages, timers, npaths, ncalls, tokenUsed>>

\* nine buffers composited, stored under a fresh random path, and a deletion timer set
TilesPuzzle(s, failed) ==
    /\ calls[s].pc = "tiles"
    /\ LET images == calls[s].data.captcha[1].images
           buffers == Buffers(images, failed)
           path == npaths + 1
       IN /\ Len(buffers) = GridTiles
          /\ captchaImages' = (path :> "png") @@ captchaImages
          /\ timers' = timers \cup {path}
          /\ npaths' = path
          /\ calls' = [calls EXCEPT ![s] =
                          Returned(calls[s],
                                   [NoResult EXCEPT !.text = TextPuzzle,
                                                    !.detail = calls[s].data.captcha[1].challenge,
                                                    !.puzzle = path,
                                                    !.grid = Composite(buffers)],
                                   TRUE)]
    /\ UNCHANGED <<build, searchState, captchaState, ncalls, tokenUsed>>

(***************************************************************************)
(* The image store                                                         *)
(***************************************************************************)
\* the status the loopback server answers for a path
ServeStatus(path) == IF path \in DOMAIN captchaImages THEN 200 ELSE 404

\* mutant: the callback empties the store
ExpireClearsStore(path) ==
    /\ path \in timers
    /\ timers' = timers \ {path}
    /\ captchaImages' = << >>
    /\ UNCHANGED <<build, searchState, captchaState, npaths, calls, ncalls, tokenUsed>>

\* the setTimeout callback: captchaImages.delete(imageUrl)
Expire(path) ==
    /\ path \in timers
    /\ timers' = timers \ {path}
    /\ captchaImages' = [p \in (DOMAIN captchaImages) \ {path} |-> captchaImages[p]]
    /\ UNCHANGED <<build, searchState, captchaState, npaths, calls, ncalls, tokenUsed>>

(***************************************************************************)
(* Specifications                                                          *)
(***************************************************************************)
\* the downloads that may fail while slot s awaits its tiles
TileFaults(s) == FaultSets(Len(calls[s].data.captcha[1].images), MaxTileFaults)

\* what a handler does after its response was parsed, and the timers
Continue ==
    \/ \E s \in Slots : Render(s)
    \/ \E s \in Slots : StartTiles(s)
    \/ \E s \in Slots : calls[s].pc = "tiles" /\ \E failed \in TileFaults(s) : TilesBlocked(s, failed)
    \/ \E s \in Slots : calls[s].pc = "tiles" /\ \E failed \in TileFaults(s) : TilesThrow(s, failed)
    \/ \E s \in Slots : calls[s].pc = "tiles" /\ npaths < MaxImages
          /\ \E failed \in TileFaults(s) : TilesPuzzle(s, failed)
    \/ \E path \in 1..MaxImages : Expire(path)

\* Calls are serialized: the client sends a call only after the previous one returned.
Next ==
    \/ \E query \in Queries : NoneInFlight /\ Search(1, query) /\ UNCHANGED ncalls
    \/ \E s \in Slots : FetchThrows(s)
    \/ \E s \in Slots : FetchNotOk(s)
    \/ \E s \in Slots : calls[s].pc = "fetch" /\ \E doc \in Docs : FetchOk(s, doc)
    \/ NoneInFlight /\ SearchNextRefused(1) /\ UNCHANGED ncalls
    \/ NoneInFlight /\ SearchNextSend(1) /\ UNCHANGED ncalls
    \/ NoneInFlight /\ SolveCaptchaRefused(1) /\ UNCHANGED ncalls
    \/ NoneInFlight /\ ~NoChallenge(captchaState)
          /\ \E indices2 \in IndexLists : SolveCaptchaSend(1, indices2) /\ UNCHANGED ncalls
    \/ Continue

Spec == Init /\ [][Next]_vars

\* Calls of search and search_next overlap: up to MaxInFlight handlers run at once, MaxCalls
\* calls in all.  A call takes the lowest free slot, and the responses are results pages
\* with and without a next-page control, or a page the parser does not recognise.
Budget == ncalls < MaxCalls /\ ncalls' = ncalls + 1
Lowest(s) == Free(s) /\ \A t \in 1..(s - 1) : ~Free(t)

DocsConc ==
    { Doc(None, None, FALSE, FALSE, << >>, << >>),
      Doc(None, None, FALSE, TRUE, <<ItemA, ItemB>>, << >>),
      Doc(None, None, FALSE, TRUE, <<ItemA, ItemB>>, <<NextForm1>>) }

NextConc ==
    \/ \E s \in Slots, query \in Queries : Lowest(s) /\ Budget /\ Search(s, query)
    \/ \E s \in Slots : Lowest(s) /\ Budget /\ SearchNextRefused(s)
    \/ \E s \in Slots : Lowest(s) /\ Budget /\ SearchNextSend(s)
    \/ \E s \in Slots : FetchThrows(s)
    \/ \E s \in Slots : FetchNotOk(s)
    \/ \E s \in Slots : calls[s].pc = "fetch" /\ \E doc \in DocsConc : FetchOk(s, doc)
    \/ \E s \in Slots : Render(s)

SpecConc == Init /\ [][NextConc]_vars

\* The puzzle-image store on its own: searches answered by challenge pages, one call at a
\* time, up to MaxStored puzzles in all.  A timer that was set fires (the server keeps
\* running), hence the fairness on Expire.
DocsStore == { Doc(Some(f), None, FALSE, FALSE, << >>, << >>) : f \in {FormA, FormB} }

NextStore ==
    \/ \E query \in Queries : NoneInFlight /\ Search(1, query) /\ UNCHANGED ncalls
    \/ \E s \in Slots : calls[s].pc = "fetch" /\ \E doc \in DocsStore : FetchOk(s, doc)
    \/ \E s \in Slots : Render(s)
    \/ \E s \in Slots : StartTiles(s)
    \/ \E s \in Slots : calls[s].pc = "tiles" /\ \E failed \in TileFaults(s) : TilesBlocked(s, failed)
    \/ \E s \in Slots : calls[s].pc = "tiles" /\ npaths < MaxStored
          /\ \E failed \in TileFaults(s) : TilesPuzzle(s, failed)
    \/ \E path \in 1..MaxStored : Expire(path)

SpecStore == Init /\ [][NextStore]_vars /\ \A path \in 1..MaxStored : WF_vars(Expire(path))

(***************************************************************************)
(* The claims.  In Spec every call runs in slot 1.                         *)
(***************************************************************************)
\* this step is a call of tool `op` arriving in slot s
NewCall(s, op) == Free(s) /\ calls'[s] # calls[s] /\ calls'[s].op = op
\* ... that issued its network request
Issued(s) == calls'[s].pc = "fetch" /\ calls'[s].req # None
\* ... that was answered at once with the error `text`, no request made
Refused(s, text) ==
    /\ calls'[s].pc = "done"
    /\ calls'[s].result.text = text
    /\ calls'[s].result.isError
    /\ ~calls'[s].result.sent

\* slot 1 holds a call of `op` that has returned
Done(op) == calls[1].op = op /\ calls[1].pc = "done"
\* the response of the returned call was a results page with a next-page control
OwnToken == calls[1].result.text = TextFound /\ calls[1].result.hasMore

\* a pendingToken exists and the page is within the cap
CanPage(ss) == ss.nextFormData # None /\ ss.nextFormData[1] # << >> /\ ss.currentPage <= 5

\* C1: once search(query) was called, and through to its return whatever its outcome, the
\* session holds currentQuery = query and currentPage = 1; unless its own response was a
\* results page with a next-page control the session holds no form data, and a search_next
\* that follows it is refused with "No next page available." without a request.
C1_SearchResets ==
    [][ /\ calls'[1].op = "search" =>
            /\ searchState'.currentQuery = Some(calls'[1].query)
            /\ searchState'.currentPage = 1
            /\ (calls'[1].pc = "done" /\ ~(calls'[1].result.text = TextFound /\ calls'[1].result.hasMore))
                  => searchState'.nextFormData = None
        /\ (Done("search") /\ ~OwnToken /\ NewCall(1, "search_next")) => Refused(1, TextNoNextPage)
      ]_vars

\* a search has failed after an earlier session had paged
C1_Witness ==
    /\ Done("search") /\ calls[1].result.text = TextFetchStatus
    /\ tokenUsed /\ searchState.currentPage = 1

\* C2: a search_next call issues a request if and only if a pendingToken exists and
\* currentPage <= 5; otherwise it returns "No next page available." with no request and
\* leaves the session and the challenge state as they were.
C2_NextGuard ==
    [][ \A s \in Slots : NewCall(s, "search_next") =>
            /\ Issued(s) <=> CanPage(searchState)
            /\ ~Issued(s) =>
                  /\ Refused(s, TextNoNextPage)
                  /\ UNCHANGED <<searchState, captchaState, captchaImages>>
      ]_vars

\* search_next was refused at page 6 although form data is pending
C2_Witness ==
    /\ Done("search_next") /\ calls[1].result.text = TextNoNextPage
    /\ searchState.currentPage = PageCap + 1
    /\ TruthyStr(searchState.nextFormData)

\* C3: while the request of search_next is out the session holds no form data; when the
\* request fails (status not OK, or an exception) it still holds none, and a search_next that
\* follows is refused with "No next page available." without a request.
C3_TokenConsumed ==
    [][ /\ (calls'[1].op = "search_next" /\ calls'[1].pc = "fetch") => searchState'.nextFormData = None
        /\ (calls'[1].op = "search_next" /\ calls'[1].pc = "done"
              /\ calls'[1].result.text \in {TextFetchStatus, TextSearchThrown})
             => searchState'.nextFormData = None
        /\ (Done("search_next") /\ calls[1].result.text \in {TextFetchStatus, TextSearchThrown}
              /\ NewCall(1, "search_next"))
             => Refused(1, TextNoNextPage)
      ]_vars

\* the request of a search_next has failed
C3_Witness == Done("search_next") /\ calls[1].result.text = TextFetchStatus /\ calls[1].result.sent

\* C4: each form-data value stored in the session is the body of at most one next-page
\* request, also when search_next calls overlap: a search_next that issues a request sends
\* the stored value, which no request has carried since it was stored, and takes it out of
\* the session in the same step.
C4_TokenSentOnce ==
    [][ \A s \in Slots : (NewCall(s, "search_next") /\ Issued(s)) =>
            /\ ~tokenUsed
            /\ calls'[s].req[1].body = searchState.nextFormData[1]
            /\ searchState'.nextFormData = None
            /\ \A t \in Slots \ {s} : calls'[t] = calls[t]
      ]_vars

\* two search_next calls overlap: the first is awaiting its response, the second was refused
C4_Witness ==
    /\ calls[1].op = "search_next" /\ calls[1].pc = "fetch"
    /\ calls[2].op = "search_next" /\ calls[2].pc = "done"
    /\ calls[2].result.text = TextNoNextPage

\* C5: currentPage never decreases except in the step in which search is called, which sets
\* it to 1; no step of search_next, of solve_captcha or of a response sets it back.
C5_PageMonotone ==
    [][ /\ searchState'.currentPage < searchState.currentPage =>
            (\E s \in Slots : NewCall(s, "search")) /\ searchState'.currentPage = 1
        /\ (\E s \in Slots : NewCall(s, "search")) => searchState'.currentPage = 1
        /\ (searchState'.currentPage # searchState.currentPage /\ ~\E s \in Slots : NewCall(s, "search"))
             => (\E s \in Slots : NewCall(s, "search_next"))
                 /\ searchState'.currentPage = searchState.currentPage + 1
      ]_vars

\* a search has set the page back to 1 after the session had paged
C5_Witness ==
    /\ calls[1].op = "search" /\ calls[1].pc = "fetch"
    /\ tokenUsed /\ searchState.currentPage = 1

\* no challenge descriptor is active: one of its five fields is missing or empty
Inactive(cs) ==
    \/ cs.challenge = None \/ cs.challenge = Some(<< >>)
    \/ cs.images = None
    \/ cs.action = None \/ cs.action = Some(<< >>)
    \/ cs.submitValue = None \/ cs.submitValue = Some(<< >>)
    \/ cs.checkboxNames = None

\* C6: solve_captcha called when no challenge descriptor is active returns the error
\* "No CAPTCHA challenge is currently active.", makes no request, and leaves the session,
\* the challenge state and the image store as they were.
C6_SolveRefused ==
    [][ \A s \in Slots : (NewCall(s, "solve_captcha") /\ Inactive(captchaState)) =>
            /\ Refused(s, TextNoCaptcha)
            /\ calls'[s].req = None
            /\ UNCHANGED <<searchState, captchaState, captchaImages, timers>>
      ]_vars

\* solve_captcha was refused after a search, with a descriptor that lacks its action
C6_Witness ==
    /\ Done("solve_captcha") /\ calls[1].result.text = TextNoCaptcha
    /\ captchaState.challenge # None /\ captchaState.action = Some(<< >>)
    /\ searchState.currentQuery # None

\* C7 (as the specification states it): once solve_captcha has completed with a response
\* that holds no new challenge form, no challenge descriptor is active.
C7_SolveDiscards ==
    (/\ Done("solve_captcha") /\ calls[1].result.sent
     /\ calls[1].result.text \in {TextCaptchaSolved, TextCaptchaFailed, TextFound, TextUnknown,
                                  TextSolveStatus})
        => Inactive(captchaState)

\* C8 (as the specification states it): after a search whose response is not a challenge
\* page no challenge descriptor is active.
C8_SearchDiscards ==
    (/\ Done("search") /\ calls[1].result.sent
     /\ calls[1].result.text \in {TextFound, TextUnknown, TextFetchStatus})
        => Inactive(captchaState)

ExpectedFields(names, indices2) ==
    LET valid == SelectSeq(indices2, LAMBDA v : v % 2 = 0 /\ (v \div 2) \in 1..Len(names))
    IN [k \in 1..Len(valid) |-> <<names[valid[k] \div 2], <<"1">> >>]

\* C10: the request solve_captcha has out goes to the descriptor's action URL and its body
\* is challenge-submit = submitValue followed by fi=1 for each given index i within 1..N,
\* in the order given, and nothing else; the other indices are ignored.
C10_SolveBody ==
    \A s \in Slots :
        (calls[s].op = "solve_captcha" /\ calls[s].pc = "fetch") =>
            calls[s].req[1] =
                [url |-> ResolveUrl(captchaState.action[1]),
                 body |-> FormToString(<< << <<"challenge-submit">>, captchaState.submitValue[1] >> >>
                                       \o ExpectedFields(captchaState.checkboxNames[1], calls[s].indices))]

\* a request is out for the indices [1, 10] on a challenge of nine tiles
C10_Witness ==
    /\ calls[1].op = "solve_captcha" /\ calls[1].pc = "fetch"
    /\ calls[1].indices = <<2, 20>>
    /\ Len(captchaState.checkboxNames[1]) = GridTiles

\* the checkbox field that belongs to the tile downloaded from `url`
FieldOfTile(url) == <<"image-check_">> \o Filename(url)

\* C11 (as the specification states it): in every composited puzzle the tile at grid
\* position p is the image of images[p], and the label drawn on a tile, passed to
\* solve_captcha as an index, checks the field of that same tile and no other.
C11_LabelsSelectTiles ==
    \A s \in Slots :
        (calls[s].pc = "done" /\ calls[s].result.text = TextPuzzle) =>
            \A p \in 1..GridTiles :
                LET drawn == calls[s].result.grid[p]
                IN /\ drawn.tile = captchaState.images[1][p]
                   /\ CheckedFields(captchaState.checkboxNames[1], <<2 * drawn.label>>)
                         = << <<FieldOfTile(drawn.tile), <<"1">> >> >>

\* C12 (as the specification states it): a stored challenge descriptor holds as many
\* checkbox names as images, and no puzzle is composited, stored or returned for a
\* descriptor whose two counts differ.
C12_NamesMatchImages ==
    /\ captchaState.images # None =>
          Len(captchaState.checkboxNames[1]) = Len(captchaState.images[1])
    /\ \A s \in Slots :
          (calls[s].pc = "done" /\ calls[s].result.text = TextPuzzle) =>
              Len(captchaState.checkboxNames[1]) = Len(captchaState.images[1])

\* the call ended on a challenge of which fewer than nine tiles were downloaded and decoded
FewerTiles(r) == r.text = TextBlocked \/ r.detail = <<"decodeJPEGFromStream">>

\* C13 (as the specification states it): a call that ends with fewer than nine tiles
\* downloaded and decoded returns the text-only "Search blocked by DuckDuckGo" message, not
\* a failure of the call, and carries no composite.
C13_FewerTilesBlocked ==
    \A s \in Slots :
        (calls[s].pc = "done" /\ FewerTiles(calls[s].result)) =>
            /\ calls[s].result.text = TextBlocked
            /\ calls[s].result.puzzle = 0 /\ calls[s].result.grid = << >>

\* the loopback server answers 200 for the path
Served(path) == ServeStatus(path) = 200

\* C14: a puzzle image answers 200 at its path from the step that stores it until its own
\* timer fires, and the timer fires whether or not the image was fetched; from then on the
\* path answers 404, as does a path that was never issued.  The firing of one timer removes
\* that entry only, and a path is never issued twice.
C14_StoreTtl ==
    /\ [](\A path \in 1..(MaxStored + 1) : Served(path) <=> path \in timers)
    /\ [](\A path \in 1..(MaxStored + 1) : path > npaths => ~Served(path))
    /\ [][ \A path \in 1..(MaxStored + 1) :
             /\ (Served(path) /\ ~Served(path)') =>
                   /\ timers' = timers \ {path}
                   /\ \A other \in 1..(MaxStored + 1) \ {path} : Served(other)' <=> Served(other)
             /\ (~Served(path) /\ Served(path)') => path = npaths + 1 /\ npaths' = path
          ]_vars
    /\ \A path \in 1..(MaxStored + 1) : Served(path) ~> ~Served(path)

\* the first puzzle has expired while a younger one is still served
C14_Witness == npaths = 2 /\ ~Served(1) /\ Served(2) /\ ServeStatus(1) = 404

\* the outcomes in their priority order, and the marker each one is recognised by
Priority == <<"captcha", "captcha-failed", "captcha-success", "results">>
Present(doc, mode) ==
    CASE mode = "captcha" -> doc.challengeForm # None
      [] mode = "captcha-failed" -> doc.errorForm # None
      [] mode = "captcha-success" -> doc.successForm
      [] mode = "results" -> doc.resultsElem
\* the outcome the priority order gives a document
Classified(doc) ==
    IF \A i \in 1..Len(Priority) : ~Present(doc, Priority[i]) THEN "unknown"
    ELSE Priority[CHOOSE i \in 1..Len(Priority) :
                     Present(doc, Priority[i]) /\ \A j \in 1..(i - 1) : ~Present(doc, Priority[j])]

\* a handler of the build with the challenge flow is about to receive its response
AwaitsParse == build = "part_001" /\ \E s \in Slots : calls[s].pc = "fetch"

\* C15: whatever markers the document of a response holds, the parse returns the one outcome
\* given by challenge > challenge-failed > challenge-resolved > results > unrecognized, and
\* extracts results (and form data) only when no challenge marker is present.
C15_ParsePriority ==
    AwaitsParse =>
        \A doc \in Docs :
            LET p == parseSearchResults(doc, searchState, captchaState)
            IN /\ p.data.mode = Classified(doc)
               /\ (doc.challengeForm # None \/ doc.errorForm # None \/ doc.successForm) =>
                     /\ p.data.results = << >> /\ p.data.hasMore = 0
                     /\ p.searchState = searchState

\* a response with an error form was parsed as challenge-failed
C15_Witness ==
    /\ build = "part_001"
    /\ calls[1].pc = "render" /\ calls[1].data.mode = "captcha-failed"

\* in this step the handler in slot s has received an OK response and parsed it
Parsed(s) == calls[s].pc = "fetch" /\ calls'[s].pc = "render"

\* C16: one parse writes at most one of the two pieces of session state.  A parse classified
\* as challenge stores the descriptor of that response and leaves the session alone; one
\* classified as results leaves the descriptor alone and changes at most the form data, and
\* that only when a next-page control was found; the other outcomes change neither.
C16_ParseFrame ==
    [][ \A s \in Slots : Parsed(s) =>
            LET data == calls'[s].data
            IN /\ data.mode = "captcha" =>
                     /\ searchState' = searchState
                     /\ captchaState'.challenge = Some(data.captcha[1].challenge)
                     /\ captchaState'.images = Some(data.captcha[1].images)
               /\ data.mode = "results" =>
                     /\ captchaState' = captchaState
                     /\ searchState'.currentQuery = searchState.currentQuery
                     /\ searchState'.currentPage = searchState.currentPage
                     /\ data.hasMore = 0 => searchState' = searchState
               /\ data.mode \in {"captcha-failed", "captcha-success", "unknown"} =>
                     UNCHANGED <<searchState, captchaState>>
      ]_vars

\* a challenge was parsed while form data was pending, and the form data is still there
C16_Witness ==
    /\ calls[1].pc = "render" /\ calls[1].data.mode = "captcha"
    /\ TruthyStr(searchState.nextFormData)

\* in this step the handler in slot s has returned on a response whose status was not OK
NotOkReturned(s) ==
    /\ calls[s].pc = "fetch" /\ calls'[s].pc = "done"
    /\ calls'[s].result.text \in {TextFetchStatus, TextSolveStatus}

\* C17: in search, search_next and solve_captcha a response with a non-OK status makes the
\* handler return an error at once, nothing of the response being parsed: the form data, the
\* challenge descriptor and the image store are as they were before the response.
C17_NotOkShortCircuit ==
    [][ \A s \in Slots : NotOkReturned(s) =>
            /\ calls'[s].result.isError
            /\ calls'[s].result.text =
                  (IF calls[s].op = "solve_captcha" THEN TextSolveStatus ELSE TextFetchStatus)
            /\ calls'[s].data = NoData /\ calls'[s].result.puzzle = 0
            /\ UNCHANGED <<searchState, captchaState, captchaImages, timers, npaths>>
      ]_vars

\* solve_captcha has returned on a non-OK status with a descriptor stored and form data pending
C17_Witness ==
    /\ Done("solve_captcha") /\ calls[1].result.text = TextSolveStatus
    /\ ~Inactive(captchaState) /\ TruthyStr(searchState.nextFormData)

\* the texts of the error outcomes: transport errors, an unrecognized document, no active
\* challenge, a puzzle that could not be assembled, no next page
ErrorTexts ==
    {TextFetchStatus, TextSearchThrown, TextSolveStatus, TextSolveThrown, TextUnknown,
     TextNoCaptcha, TextBlocked, TextNoNextPage}

\* C18 (as the specification states it): every error outcome of search, search_next and
\* solve_captcha is returned with the error indicator set.
C18_ErrorsFlagged ==
    \A s \in Slots :
        (calls[s].pc = "done" /\ calls[s].result.text \in ErrorTexts) => calls[s].result.isError

\* C19 (as the specification states it): after a call that returned a results page without
\* a next-page control the session holds no form data.
C19_NoControlNoToken ==
    \A s \in Slots :
        (calls[s].pc = "done" /\ calls[s].result.text = TextFound /\ ~calls[s].result.hasMore)
            => searchState.nextFormData = None

\* what the parser of the running build makes of a document in the current state
ParseOf(doc) ==
    IF build = "part_001" THEN parseSearchResults(doc, searchState, captchaState)
    ELSE parseSearchResultsV1(doc, searchState, captchaState)

\* the documents the running build takes for a results page with a next-page control
PagesWithNext == { doc \in Docs : ParseOf(doc).data.mode = "results" /\ doc.nextForms # << >> }

\* C20 (as the specification states it): a results page with N .result elements and a
\* next-page control yields N records and a non-empty form-data string.
C20_ExtractsAll ==
    (\E s \in Slots : calls[s].pc = "fetch") =>
        \A doc \in PagesWithNext :
            /\ Len(ParseOf(doc).data.results) = Len(doc.items)
            /\ TruthyStr(ParseOf(doc).searchState.nextFormData)

\* the records expected of a list of .result elements: one per element that has a link with
\* a non-empty title, in document order
ExpectedRecords(items) ==
    LET kept == SelectSeq(items, LAMBDA it : it.hasLink /\ it.title # << >>)
    IN [k \in 1..Len(kept) |->
           [title |-> kept[k].title, url |-> kept[k].href,
            description |-> IF kept[k].snippet = None THEN << >> ELSE kept[k].snippet[1]]]

\* the name/value pairs expected of the inputs of the Next forms: one per input that has
\* a non-empty name, in field order, a missing value being the empty string
ExpectedPairs(inputs) ==
    LET named == SelectSeq(inputs, LAMBDA input : input.name # None /\ input.name[1] # << >>)
    IN [k \in 1..Len(named) |->
           <<named[k].name[1], IF named[k].value = None THEN << >> ELSE named[k].value[1]>>]

\* C20 (amended): a results page with a next-page control yields one record for each
\* .result element that has a link with a non-empty title, in document order, with the raw
\* href and the snippet or the empty string (so N records when all N elements have a title);
\* the form data stored is the name=value pairs of the named inputs of the Next forms in
\* field order, a missing value as the empty string (non-empty when there is a named
\* input); and search_next sends the stored string, as it is, as the body of its request.
C20_ExtractsTitled ==
    /\ []((\E s \in Slots : calls[s].pc = "fetch") =>
            \A doc \in PagesWithNext :
                LET p == ParseOf(doc)
                    pairs == ExpectedPairs(AllInputs(doc.nextForms))
                IN /\ p.data.results = ExpectedRecords(doc.items)
                   /\ p.searchState.nextFormData = Some(FormToString(pairs))
                   /\ pairs # << >> => TruthyStr(p.searchState.nextFormData))
    /\ [][ \A s \in Slots : (NewCall(s, "search_next") /\ Issued(s)) =>
              calls'[s].req[1] = [url |-> SearchUrl, body |-> searchState.nextFormData[1]]
         ]_vars

\* search_next has sent the form data of a page whose Next form has an input without a value
C20_Witness ==
    /\ calls[1].op = "search_next" /\ calls[1].pc = "fetch"
    /\ calls[1].req[1].body =
          FormToString(<< << <<"q">>, <<"q1">> >>, << <<"s">>, <<"30">> >>, << <<"nextParams">>, << >> >> >>)

\* in this step the handler in slot s has turned its parsed data into its result
Rendered(s) == calls[s].pc = "render" /\ calls'[s].pc = "done"

\* the documents with no challenge marker and no results container, and the results pages
\* with no item
Unrecognized == { doc \in Docs : \A i \in 1..Len(Priority) : ~Present(doc, Priority[i]) }
ZeroResults == { doc \in Docs : Classified(doc) = "results" /\ doc.items = << >> /\ doc.nextForms = << >> }

\* C21: a document with no challenge marker and no results container is parsed as
\* "unknown" and answered with the unknown-error text and no results, whereas a results page
\* with no item is parsed as results and answered with "Found 0 results ... No more pages
\* available.": the two answers differ.
C21_UnknownNotZero ==
    /\ [](AwaitsParse =>
            /\ \A doc \in Unrecognized : ParseOf(doc).data.mode = "unknown"
            /\ \A doc \in ZeroResults :
                  ParseOf(doc).data.mode = "results" /\ ParseOf(doc).data.results = << >>)
    /\ [][ \A s \in Slots : (build = "part_001" /\ Rendered(s)) =>
              LET data == calls[s].data
                  result == calls'[s].result
              IN /\ data.mode = "unknown" =>
                       /\ result.text = TextUnknown /\ result.text \in ErrorTexts
                       /\ result.text # TextFound /\ result.listed = << >>
                 /\ (data.mode = "results" /\ data.results = << >> /\ data.hasMore = 0) =>
                       /\ result.text = TextFound /\ result.found = 0
                       /\ ~result.hasMore /\ ~result.isError
         ]_vars

\* a search was answered with a document that holds none of the markers
C21_Witness ==
    /\ build = "part_001"
    /\ Done("search") /\ calls[1].result.text = TextUnknown

\* the five fields a challenge form stands for
DescriptorOf(form) ==
    LET named == SelectSeq(form.tiles, LAMBDA src : Filename(src) # << >>)
    IN [challenge |-> Some(form.instructions),
        images |-> Some([i \in 1..Len(form.tiles) |-> ResolveUrl(form.tiles[i])]),
        action |-> Some(form.action),
        submitValue |-> Some(form.submitValue),
        checkboxNames |-> Some([i \in 1..Len(named) |-> FieldOfTile(named[i])])]

\* the descriptors the challenge forms of the documents stand for
Descriptors == { DescriptorOf(form) : form \in ChallengeForms }

\* C22: the session holds one descriptor; it is either unset or the five fields of one
\* challenge form.  Every response classified as challenge replaces all five by the fields
\* of the form of that response, whatever descriptor was held before, and while the handler
\* assembles the puzzle of that response the descriptor is the one of the form it shows.
C22_DescriptorWhole ==
    /\ captchaState = InitCaptchaState \/ captchaState \in Descriptors
    /\ AwaitsParse =>
          \A doc \in Docs : doc.challengeForm # None =>
              ParseOf(doc).captchaState = DescriptorOf(doc.challengeForm[1])
    /\ \A s \in Slots : (calls[s].pc \in {"render", "tiles"} /\ calls[s].data.mode = "captcha") =>
          \E form \in ChallengeForms :
              /\ captchaState = DescriptorOf(form)
              /\ calls[s].data.captcha = Some([challenge |-> form.instructions,
                                               images |-> DescriptorOf(form).images[1]])

\* solve_captcha, which needs a descriptor to send, was answered with another challenge,
\* whose form is now the descriptor
C22_Witness ==
    /\ calls[1].op = "solve_captcha" /\ calls[1].pc = "tiles"
    /\ calls[1].data.mode = "captcha"
    /\ captchaState = DescriptorOf(FormB)

\* C23 (as the specification states it): whenever search or search_next returns a summary,
\* that summary says "More pages available via search_next tool" exactly when a search_next
\* that follows at once passes its guard and issues a request, and "No more pages
\* available." exactly when it is refused.
C23_SummaryMatchesGuard ==
    (calls[1].pc = "done" /\ calls[1].op \in {"search", "search_next"}
        /\ calls[1].result.text = TextFound) =>
           (calls[1].result.hasMore <=> ~NoNextPage(searchState))

\* C24 (as the specification states it): whenever an operation has returned the puzzle
\* prompt, the descriptor passes the guard of solve_captcha, so a solve_captcha that follows
\* at once is not refused with "No CAPTCHA challenge is currently active." and posts to the
\* action URL of the challenge the prompt shows.
C24_PromptMeansActive ==
    (calls[1].pc = "done" /\ calls[1].result.text = TextPuzzle) =>
        /\ ~NoChallenge(captchaState)
        /\ \E form \in ChallengeForms :
              /\ form.instructions = calls[1].result.detail
              /\ SolveRequest(captchaState, << >>).url = ResolveUrl(form.action)

\* two calls were made in all, a search in slot 1 and, while it was in flight, a search for
\* another query in slot 2 (a call takes slot 2 only when slot 1 is busy), and both have
\* returned
Superseded ==
    /\ ncalls = 2
    /\ calls[1].query # calls[2].query
    /\ calls[1].op = "search" /\ calls[1].pc = "done"
    /\ calls[2].op = "search" /\ calls[2].pc = "done"

\* C25 (as the specification states it): if a search starts while an earlier search is
\* still in flight, then once both have returned the form data held, if any, was taken from
\* the response to the later search: when that response had no next-page control (or was no
\* results page, or failed) the session holds no form data.
C25_TokenOfLatestSearch ==
    (Superseded /\ searchState.nextFormData # None) =>
        (calls[2].result.text = TextFound /\ calls[2].result.hasMore)

\* C26: currentPage is always between 1 and 6.  It counts the next-page requests issued
\* since the last search: a search sets it to 1, a search_next that issues a request does so
\* from a page of at most 5 and adds one, and no other step (a refused search_next among
\* them) changes it or issues a next-page request; so at most 5 such requests are issued
\* between two searches, however often search_next is called.
C26_PageBounded ==
    /\ [](searchState.currentPage \in 1..(PageCap + 1))
    /\ [][ /\ \A s \in Slots : NewCall(s, "search") => searchState'.currentPage = 1
           /\ \A s \in Slots : (NewCall(s, "search_next") /\ Issued(s)) =>
                 /\ searchState.currentPage <= PageCap
                 /\ searchState'.currentPage = searchState.currentPage + 1
           /\ (~\E s \in Slots : NewCall(s, "search") \/ (NewCall(s, "search_next") /\ Issued(s))) =>
                 /\ searchState'.currentPage = searchState.currentPage
                 /\ \A s \in Slots : calls'[s].op = "search_next" /\ calls'[s].req # None =>
                       calls'[s].req = calls[s].req
         ]_vars

\* the fifth next-page request since the search is out
C26_Witness ==
    /\ calls[1].op = "search_next" /\ calls[1].pc = "fetch" /\ calls[1].req # None
    /\ searchState.currentPage = PageCap + 1

\* a step of solve_captcha in slot s: its call, or a step of its handler up to its return
SolveStep(s) ==
    \/ NewCall(s, "solve_captcha")
    \/ calls[s].op = "solve_captcha" /\ calls[s].pc \in {"fetch", "render", "tiles"} /\ calls'[s] # calls[s]

\* C27: no step of solve_captcha, whatever its outcome, changes currentQuery or currentPage;
\* the form data is changed by solve_captcha only in the step that parses its response, only
\* when that response is a results page with a next-page control, and then to the form data
\* of that page.
C27_SolveFrame ==
    [][ \A s \in Slots : SolveStep(s) =>
            /\ searchState'.currentQuery = searchState.currentQuery
            /\ searchState'.currentPage = searchState.currentPage
            /\ searchState'.nextFormData # searchState.nextFormData =>
                  /\ Parsed(s)
                  /\ calls'[s].data.mode = "results" /\ calls'[s].data.hasMore # 0
                  /\ searchState'.nextFormData # None
      ]_vars

\* solve_captcha, called on page 2 of a search, was answered with a results page with a
\* next-page control
C27_Witness ==
    /\ Done("solve_captcha") /\ OwnToken
    /\ searchState.currentPage = 2 /\ TruthyStr(searchState.nextFormData)

====
